---- MODULE Spec2Model ----
(***************************************************************************)
(* A model of Khilonamart/script.py: the AmazonToysScraper object, its     *)
(* retrying request client (make_request_with_retry), the per-container    *)
(* extractor (scrape_product_details) and the paginator                    *)
(* (scrape_toys_category).  One action per step of the code; the network,  *)
(* the page markup and the container contents are inputs drawn from small  *)
(* sets.  Texts are sequences of one-character strings.                    *)
(***************************************************************************)
EXTENDS Integers, Sequences, FiniteSets, TLC

VARIABLES
    pc,                   \* position of the single thread of control
    runs,                 \* calls of scrape_toys_category made on the object
    max_pages,            \* arguments of the current (or last) call
    max_products,
    page_num,             \* locals of scrape_toys_category
    products_scraped,
    consecutive_failures,
    products_data,        \* self.products_data
    returned,             \* value handed back by the last completed call
    attempt,              \* locals of make_request_with_retry
    response,
    status,
    yields,               \* how many containers each selector evaluated on
                          \* this page yielded, in the order evaluated
    tried,                \* container selectors evaluated on this page
    product_containers,
    idx,                  \* position in enumerate(product_containers)
    lastFate,             \* history: what became of the container last
                          \* handed to the extractor on this page
    inFlight,             \* requests sent and not yet answered
    lastOp,               \* last sleep or GET performed
    gets,                 \* GETs issued by the current make_request call
    backoffs,             \* backoff sleeps of the current make_request call
    outcomes,             \* history: outcome of each finished page of the run
    iterStart,            \* history: the locals at the start of the iteration
    fetches,              \* history: make_request calls of the run
    details,              \* the locals of a scrape_product_details call
    powerbi               \* create_powerbi_dataset: calls made, their results

vars == <<pc, runs, max_pages, max_products, page_num, products_scraped,
          consecutive_failures, products_data, returned, attempt, response,
          status, yields, tried, product_containers, idx, lastFate, inFlight,
          lastOp, gets, backoffs, outcomes, iterStart, fetches, details,
          powerbi>>

----------------------------------------------------------------------------
(* Bounds of the model. *)
MaxRuns == 2
MaxPagesBound == 5
MaxProductsBound == 2
MaxContainers == 2

(* Constants of the program. *)
MaxRetries == 3
FailureLimit == 3
MinDelay == 2
MaxDelay == 5
NumSelectors == 4

None == [none |-> TRUE]

(* An exception leaving a call instead of a value. *)
Raised == [raised |-> TRUE]
Response200 == [status_code |-> 200]

(* Status codes a GET can answer with: 200, 503, and one other non-200. *)
StatusCodes == {200, 503, 404}

(* Texts a matched name element can carry. *)
NameTexts == { <<>>, <<" ">>, <<" ", "a", " ", " ", "b", " ">> }

(* What a product container holds, as far as the extractor reads it:       *)
(* whether a name selector matches, the matched element's text, and        *)
(* whether reading the container raises.                                   *)
Containers ==
    [has_name : {TRUE}, name_text : NameTexts, raises : BOOLEAN]
    \cup [has_name : {FALSE}, name_text : {<<>>}, raises : BOOLEAN]

(* How many containers a selector can yield on a page.  A container is     *)
(* named by the selector that found it and its position in document order. *)
YieldCounts == 0..MaxContainers

----------------------------------------------------------------------------
(* Pure helpers. *)

RECURSIVE Pow2(_)
Pow2(n) == IF n = 0 THEN 1 ELSE 2 * Pow2(n - 1)

IsSpace(c) == c = " "

RECURSIVE LStrip(_)
LStrip(t) ==
    IF t = <<>> THEN <<>>
    ELSE IF IsSpace(Head(t)) THEN LStrip(Tail(t)) ELSE t

RECURSIVE RStrip(_)
RStrip(t) ==
    IF t = <<>> THEN <<>>
    ELSE IF IsSpace(t[Len(t)]) THEN RStrip(SubSeq(t, 1, Len(t) - 1)) ELSE t

Strip(t) == RStrip(LStrip(t))

(* re.sub(r'\s+', ' ', t): every run of whitespace becomes one space. *)
RECURSIVE CollapseSpaces(_)
CollapseSpaces(t) ==
    IF t = <<>> THEN <<>>
    ELSE IF IsSpace(Head(t))
         THEN <<" ">> \o CollapseSpaces(LStrip(t))
         ELSE <<Head(t)>> \o CollapseSpaces(Tail(t))

clean_text(t) == IF t = <<>> THEN <<>> ELSE CollapseSpaces(Strip(t))

(* soup.select(selector) when selector s matches n elements of the page. *)
Select(s, n) == [k \in 1..n |-> <<s, k>>]

(* scrape_product_details without its try/except: the exception leaves. *)
scrape_product_details_uncaught(c) ==
    IF c.raises THEN Raised
    ELSE [Product_Name |-> IF c.has_name THEN clean_text(c.name_text) ELSE <<>>]

(* scrape_product_details: the record, whose name is the cleaned text of   *)
(* the matched element or the empty text; an exception raised while        *)
(* reading the container is caught and None returned.                      *)
scrape_product_details(c) ==
    IF c.raises THEN None
    ELSE [Product_Name |-> IF c.has_name THEN clean_text(c.name_text) ELSE <<>>]

(* Truthy without the test of the name. *)
TruthyAnyRecord(product_data) ==
    /\ product_data # None
    /\ product_data # Raised

(* product_data and product_data.get('Product_Name') *)
Truthy(product_data) ==
    /\ product_data # None
    /\ product_data # Raised
    /\ product_data.Product_Name # <<>>

(* LoopCond with the breaker tripping one failure late. *)
LoopCondLateBreaker ==
    /\ page_num <= max_pages
    /\ products_scraped < max_products
    /\ consecutive_failures <= FailureLimit

(* The while condition of scrape_toys_category. *)
LoopCond ==
    /\ page_num <= max_pages
    /\ products_scraped < max_products
    /\ consecutive_failures < FailureLimit

----------------------------------------------------------------------------
(* Texts, and the numbers extract_rating and extract_review_count read     *)
(* from them.  A decimal is held in hundredths: 4.3 is 430.                *)

Digits == {"0", "1", "2", "3", "4", "5", "6", "7", "8", "9"}

IsDigit(ch) == ch \in Digits

DigitValue(ch) ==
    CASE ch = "0" -> 0 [] ch = "1" -> 1 [] ch = "2" -> 2 [] ch = "3" -> 3
      [] ch = "4" -> 4 [] ch = "5" -> 5 [] ch = "6" -> 6 [] ch = "7" -> 7
      [] ch = "8" -> 8 [] ch = "9" -> 9

(* str.lower(), on the upper-case letters the texts of the model use. *)
LowerChar(ch) ==
    CASE ch = "R" -> "r" [] ch = "E" -> "e" [] ch = "V" -> "v"
      [] ch = "I" -> "i" [] ch = "W" -> "w" [] ch = "S" -> "s"
      [] ch = "P" -> "p" [] OTHER -> ch

Lower(t) == [i \in 1..Len(t) |-> LowerChar(t[i])]

(* sub in t *)
Contains(t, sub) ==
    \E i \in 1..(Len(t) - Len(sub) + 1) : SubSeq(t, i, i + Len(sub) - 1) = sub

HasDigit(t) == \E i \in 1..Len(t) : IsDigit(t[i])

NotComma(ch) == ch # ","

(* t.replace(',', '') *)
RemoveCommas(t) == SelectSeq(t, NotComma)

(* Where the leftmost digit of t is; 0 if t has none. *)
FirstDigit(t) ==
    IF HasDigit(t)
    THEN CHOOSE i \in 1..Len(t) :
            IsDigit(t[i]) /\ \A j \in 1..(i - 1) : ~IsDigit(t[j])
    ELSE 0

(* How many digits follow one another in t from position i on. *)
RECURSIVE DigitRun(_, _)
DigitRun(t, i) ==
    IF i <= Len(t) /\ IsDigit(t[i]) THEN 1 + DigitRun(t, i + 1) ELSE 0

(* int(d) for a text d of digits. *)
RECURSIVE ToInt(_)
ToInt(d) ==
    IF d = <<>> THEN 0
    ELSE 10 * ToInt(SubSeq(d, 1, Len(d) - 1)) + DigitValue(d[Len(d)])

(* The fraction .d in hundredths, for a text d of at most two digits. *)
Hundredths(d) ==
    IF d = <<>> THEN 0
    ELSE IF Len(d) = 1 THEN 10 * DigitValue(d[1])
    ELSE 10 * DigitValue(d[1]) + DigitValue(d[2])

(* A number, as opposed to None. *)
Some(n) == [value |-> n]

(* extract_rating: float of the leftmost run of digits, with the point    *)
(* and the digits that follow it if there are any.                         *)
extract_rating(rating_text) ==
    IF rating_text = <<>> \/ ~HasDigit(rating_text) THEN None
    ELSE LET i == FirstDigit(rating_text)
             n == DigitRun(rating_text, i)
             dot == i + n <= Len(rating_text) /\ rating_text[i + n] = "."
             m == IF dot THEN DigitRun(rating_text, i + n + 1) ELSE 0
         IN  Some(100 * ToInt(SubSeq(rating_text, i, i + n - 1))
                  + Hundredths(SubSeq(rating_text, i + n + 1, i + n + m)))

(* extract_review_count: int of the leftmost run of digits in the text     *)
(* with its commas removed.                                                *)
extract_review_count(review_text) ==
    IF review_text = <<>> THEN None
    ELSE LET u == RemoveCommas(review_text)
             i == FirstDigit(u)
         IN  IF i = 0 THEN None
             ELSE Some(ToInt(SubSeq(u, i, i + DigitRun(u, i) - 1)))

(* 'review' in review_text.lower() or any(char.isdigit() ...) *)
ReviewTextValid(review_text) ==
    \/ Contains(Lower(review_text), <<"r", "e", "v", "i", "e", "w">>)
    \/ HasDigit(review_text)

(* No element matched a selector. *)
NoElement == [matched |-> FALSE]

(* Texts the element a review selector matches can carry. *)
ReviewTexts ==
    { <<>>,
      <<"S", "e", "e", " ", "o", "p", "t", "i", "o", "n", "s">>,
      <<"1", ",", "2", "3", "4", " ", "r", "a", "t", "i", "n", "g", "s">>,
      <<"R", "e", "v", "i", "e", "w", "s">>,
      <<"(", "5", "6", ")">> }

(* What one review selector finds in a container. *)
ReviewCandidates ==
    {NoElement} \cup [matched : {TRUE}, text : ReviewTexts]

(* What the first matching rating selector finds: an element with an       *)
(* aria-label (empty if it has none) and a visible text.                   *)
RatingLabels ==
    { <<>>,
      <<"4", ".", "3", " ", "o", "u", "t", " ", "o", "f", " ", "5", " ", "s", "t", "a", "r", "s">>,
      <<"1", "2", " ", "r", "a", "t", "i", "n", "g", "s">> }

RatingTexts ==
    { <<>>,
      <<"4", ".", "5">>,
      <<"P", "r", "i", "m", "e">>,
      <<"3">> }

RatingElements ==
    {NoElement}
    \cup [matched : {TRUE}, aria_label : RatingLabels, text : RatingTexts]

(* review_selectors has four entries. *)
NumReviewSelectors == 4

(* A container as scrape_product_details reads it on its own: the name,    *)
(* what the first matching rating selector finds, and what each review     *)
(* selector finds.  Either the rating element or the review candidates     *)
(* vary.                                                                   *)
DetailContainers ==
    [has_name : {TRUE}, name_text : {<<" ", "a", " ", " ", "b", " ">>}, raises : {FALSE},
     rating : RatingElements,
     reviews : {[k \in 1..NumReviewSelectors |-> NoElement]}]
    \cup [has_name : BOOLEAN, name_text : {<<" ", "a", " ", " ", "b", " ">>}, raises : {FALSE},
          rating : {NoElement},
          reviews : [1..NumReviewSelectors -> ReviewCandidates]]

(* rating_element.get('aria-label', '') or rating_element.get_text() *)
RatingText(rating_element) ==
    IF rating_element.aria_label # <<>> THEN rating_element.aria_label
    ELSE rating_element.text

----------------------------------------------------------------------------
runVars == <<runs, max_pages, max_products, returned>>
loopVars == <<page_num, products_scraped, consecutive_failures, products_data>>
reqVars == <<attempt, response, status, inFlight, lastOp, gets, backoffs>>
pageVars == <<yields, tried, product_containers, idx, lastFate>>
histVars == <<outcomes, iterStart, fetches>>

(* The locals of scrape_toys_category and make_request_with_retry and the  *)
(* histories: everything of a run but self.products_data.                  *)
runLocalVars ==
    <<pc, runs, max_pages, max_products, page_num, products_scraped,
      consecutive_failures, returned, reqVars, pageVars, histVars>>

(* State that scrape_toys_category does not touch: what a call of          *)
(* scrape_product_details on its own and create_powerbi_dataset work on.   *)
otherVars == <<details, powerbi>>

(* No scrape_product_details call has been made on its own. *)
NoDetails == [stage |-> "none"]

(* create_powerbi_dataset has not been called. *)
NoDataset == [calls |-> 0, df |-> <<>>, first |-> <<>>]

NoSnapshot ==
    [page_num |-> 0, products_scraped |-> 0, consecutive_failures |-> 0,
     products_data |-> <<>>]

Snapshot ==
    [page_num |-> page_num, products_scraped |-> products_scraped,
     consecutive_failures |-> consecutive_failures,
     products_data |-> products_data]

(* No call of scrape_toys_category made or in progress: its locals and    *)
(* the histories are at their starting values.                             *)
NoRun ==
    /\ pc = "idle"
    /\ runs = 0
    /\ max_pages = 0
    /\ max_products = 0
    /\ page_num = 0
    /\ products_scraped = 0
    /\ consecutive_failures = 0
    /\ returned = <<>>
    /\ attempt = 0
    /\ response = None
    /\ status = 0
    /\ yields = <<>>
    /\ tried = 0
    /\ product_containers = <<>>
    /\ idx = 0
    /\ lastFate = "none"
    /\ inFlight = 0
    /\ lastOp = [op |-> "none", dur |-> 0]
    /\ gets = 0
    /\ backoffs = 0
    /\ outcomes = <<>>
    /\ iterStart = NoSnapshot
    /\ fetches = 0

(* __init__: a fresh object, no call made yet. *)
Init ==
    /\ NoRun
    /\ products_data = <<>>
    /\ details = NoDetails
    /\ powerbi = NoDataset

----------------------------------------------------------------------------
(* scrape_toys_category: entry, loop head, return. *)

(* A call scrape_toys_category(mp, mprod) on the object. *)
StartRun ==
    /\ pc \in {"idle", "done"}
    /\ runs < MaxRuns
    /\ \E mp \in 0..MaxPagesBound, mprod \in 0..MaxProductsBound :
          /\ max_pages' = mp
          /\ max_products' = mprod
    /\ runs' = runs + 1
    /\ page_num' = 1
    /\ products_scraped' = 0
    /\ consecutive_failures' = 0
    /\ outcomes' = <<>>
    /\ iterStart' = [NoSnapshot EXCEPT !.page_num = 1,
                                       !.products_data = products_data]
    /\ fetches' = 0
    /\ pc' = "loop"
    /\ UNCHANGED <<products_data, returned, reqVars, pageVars>>
    /\ UNCHANGED otherVars

(* The loop condition holds: the iteration calls make_request_with_retry. *)
LoopEnter ==
    /\ pc = "loop"
    /\ LoopCond
    /\ attempt' = 0
    /\ response' = None
    /\ status' = 0
    /\ gets' = 0
    /\ backoffs' = 0
    /\ fetches' = fetches + 1
    /\ iterStart' = Snapshot
    /\ pc' = "req_for"
    /\ UNCHANGED <<runVars, loopVars, pageVars, inFlight, lastOp, outcomes>>
    /\ UNCHANGED otherVars

(* The loop condition fails: return self.products_data. *)
ReturnData ==
    /\ pc = "loop"
    /\ ~LoopCond
    /\ returned' = products_data
    /\ pc' = "done"
    /\ UNCHANGED <<runs, max_pages, max_products, loopVars, reqVars, pageVars,
                   histVars>>
    /\ UNCHANGED otherVars

----------------------------------------------------------------------------
(* make_request_with_retry, one action per step of its for loop. *)

(* Delays get_random_delay can return: random.uniform(2, 5), in seconds. *)
Delays == MinDelay..MaxDelay

(* Jitter added to the backoff after a 503: random.uniform(1, 3). *)
Jitters == 1..3

(* MoreAttempts with the range one too long. *)
MoreAttemptsOffByOne == attempt <= MaxRetries

(* for attempt in range(max_retries): another attempt is due. *)
MoreAttempts == attempt < MaxRetries

(* PolitenessSleep sleeping before the first attempt only. *)
PolitenessSleepFirstOnly ==
    /\ pc = "req_for"
    /\ MoreAttempts
    /\ IF attempt = 0
       THEN \E d \in MinDelay..MaxDelay :
               lastOp' = [op |-> "politeness", dur |-> d]
       ELSE UNCHANGED lastOp
    /\ pc' = "req_get"
    /\ UNCHANGED <<runVars, loopVars, pageVars, histVars, attempt, response,
                   status, inFlight, gets, backoffs>>
    /\ UNCHANGED otherVars

(* Top of the for body: time.sleep(self.get_random_delay()). *)
PolitenessSleep ==
    /\ pc = "req_for"
    /\ MoreAttempts
    /\ \E d \in Delays : lastOp' = [op |-> "politeness", dur |-> d]
    /\ pc' = "req_get"
    /\ UNCHANGED <<runVars, loopVars, pageVars, histVars, attempt, response,
                   status, inFlight, gets, backoffs>>
    /\ UNCHANGED otherVars

(* self.session.get(url, timeout=15) is sent. *)
GetSend ==
    /\ pc = "req_get"
    /\ inFlight' = inFlight + 1
    /\ gets' = gets + 1
    /\ lastOp' = [op |-> "get", dur |-> 0]
    /\ pc' = "req_wait"
    /\ UNCHANGED <<runVars, loopVars, pageVars, histVars, attempt, response,
                   status, backoffs>>
    /\ UNCHANGED otherVars

(* AfterStatus treating 200 like any other status. *)
AfterStatusNoReturn(st) == "req_backoff"

(* Where the for body goes after a response with status code st. *)
AfterStatus(st) == IF st = 200 THEN "fetched" ELSE "req_backoff"

(* The GET is answered with a status code; 200 returns the response. *)
GetResponse ==
    /\ pc = "req_wait"
    /\ inFlight' = inFlight - 1
    /\ \E st \in StatusCodes :
          /\ status' = st
          /\ response' = IF st = 200 THEN Response200 ELSE None
          /\ pc' = AfterStatus(st)
    /\ UNCHANGED <<runVars, loopVars, pageVars, histVars, attempt, lastOp,
                   gets, backoffs>>
    /\ UNCHANGED otherVars

(* The GET raises requests.RequestException (timeout, connection error). *)
GetRaises ==
    /\ pc = "req_wait"
    /\ inFlight' = inFlight - 1
    /\ status' = 0
    /\ pc' = "req_except"
    /\ UNCHANGED <<runVars, loopVars, pageVars, histVars, attempt, response,
                   lastOp, gets, backoffs>>
    /\ UNCHANGED otherVars

(* The sleep after a non-200 status: 2^attempt, plus jitter after a 503. *)
BackoffSleep ==
    /\ pc = "req_backoff"
    /\ \E j \in Jitters :
          lastOp' = [op |-> "backoff",
                     dur |-> IF status = 503 THEN Pow2(attempt) + j
                             ELSE Pow2(attempt)]
    /\ backoffs' = backoffs + 1
    /\ attempt' = attempt + 1
    /\ pc' = "req_for"
    /\ UNCHANGED <<runVars, loopVars, pageVars, histVars, response, status,
                   inFlight, gets>>
    /\ UNCHANGED otherVars

(* RequestExceptionHandler sleeping after the last attempt too. *)
RequestExceptionHandlerAlwaysSleeps ==
    /\ pc = "req_except"
    /\ lastOp' = [op |-> "backoff", dur |-> Pow2(attempt)]
    /\ backoffs' = backoffs + 1
    /\ attempt' = attempt + 1
    /\ pc' = "req_for"
    /\ UNCHANGED <<runVars, loopVars, pageVars, histVars, response, status,
                   inFlight, gets>>
    /\ UNCHANGED otherVars

(* except requests.RequestException: sleep 2^attempt unless it was the     *)
(* last attempt.                                                           *)
RequestExceptionHandler ==
    /\ pc = "req_except"
    /\ IF attempt < MaxRetries - 1
       THEN /\ lastOp' = [op |-> "backoff", dur |-> Pow2(attempt)]
            /\ backoffs' = backoffs + 1
       ELSE UNCHANGED <<lastOp, backoffs>>
    /\ attempt' = attempt + 1
    /\ pc' = "req_for"
    /\ UNCHANGED <<runVars, loopVars, pageVars, histVars, response, status,
                   inFlight, gets>>
    /\ UNCHANGED otherVars

(* The for loop is exhausted: return None. *)
ReturnNone ==
    /\ pc = "req_for"
    /\ ~MoreAttempts
    /\ response' = None
    /\ pc' = "fetched"
    /\ UNCHANGED <<runVars, loopVars, pageVars, histVars, attempt, status,
                   inFlight, lastOp, gets, backoffs>>
    /\ UNCHANGED otherVars

----------------------------------------------------------------------------
(* scrape_toys_category, the body of the while loop after the fetch. *)

(* The locals of make_request_with_retry are gone once its result is used. *)
ClearRequest ==
    /\ attempt' = 0
    /\ status' = 0
    /\ gets' = 0
    /\ backoffs' = 0

(* The page's locals are dead once its iteration ends. *)
ClearPage ==
    /\ yields' = <<>>
    /\ tried' = 0
    /\ product_containers' = <<>>
    /\ idx' = 0
    /\ lastFate' = "none"

(* FetchFailed without page_num += 1. *)
FetchFailedSamePage ==
    /\ pc = "fetched"
    /\ response = None
    /\ consecutive_failures' = consecutive_failures + 1
    /\ outcomes' = Append(outcomes, "failed")
    /\ ClearRequest
    /\ pc' = "loop"
    /\ UNCHANGED <<runVars, page_num, products_scraped, products_data,
                   response, inFlight, lastOp, pageVars, iterStart, fetches>>
    /\ UNCHANGED otherVars

(* if not response: consecutive_failures += 1; page_num += 1; continue *)
FetchFailed ==
    /\ pc = "fetched"
    /\ response = None
    /\ consecutive_failures' = consecutive_failures + 1
    /\ page_num' = page_num + 1
    /\ outcomes' = Append(outcomes, "failed")
    /\ ClearRequest
    /\ pc' = "loop"
    /\ UNCHANGED <<runVars, products_scraped, products_data, response,
                   inFlight, lastOp, pageVars, iterStart, fetches>>
    /\ UNCHANGED otherVars

(* soup = BeautifulSoup(response.content, 'html.parser') *)
Parse ==
    /\ pc = "fetched"
    /\ response # None
    /\ yields' = <<>>
    /\ tried' = 0
    /\ product_containers' = <<>>
    /\ ClearRequest
    /\ pc' = "select"
    /\ UNCHANGED <<runVars, loopVars, response, inFlight, lastOp, idx,
                   lastFate, histVars>>
    /\ UNCHANGED otherVars

(* The parser rejects the markup: the exception reaches the loop's except. *)
ParseRaises ==
    /\ pc = "fetched"
    /\ response # None
    /\ ClearRequest
    /\ pc' = "except"
    /\ UNCHANGED <<runVars, loopVars, response, inFlight, lastOp, pageVars,
                   histVars>>
    /\ UNCHANGED otherVars

(* SelectorLoopDone without the break. *)
SelectorLoopNoBreak(found, n) == n = NumSelectors

(* Whether the selector loop stops after a selector yielded found. *)
SelectorLoopDone(found, n) == found # <<>> \/ n = NumSelectors

(* One turn of "for selector in product_selectors": the selector matches  *)
(* n elements of the page; select, break if any.                           *)
TrySelector ==
    /\ pc = "select"
    /\ tried < NumSelectors
    /\ \E n \in YieldCounts :
          LET found == Select(tried + 1, n) IN
             /\ product_containers' = found
             /\ yields' = Append(yields, n)
             /\ tried' = tried + 1
             /\ pc' = IF SelectorLoopDone(found, tried + 1) THEN "check"
                      ELSE "select"
    /\ UNCHANGED <<runVars, loopVars, reqVars, idx, lastFate, histVars>>
    /\ UNCHANGED otherVars

(* NoContainers without consecutive_failures += 1. *)
NoContainersNotCounted ==
    /\ pc = "check"
    /\ product_containers = <<>>
    /\ page_num' = page_num + 1
    /\ outcomes' = Append(outcomes, "failed")
    /\ ClearPage
    /\ pc' = "loop"
    /\ UNCHANGED <<runVars, products_scraped, consecutive_failures,
                   products_data, reqVars, iterStart, fetches>>
    /\ UNCHANGED otherVars

(* if not product_containers: the debug page is written, then              *)
(* consecutive_failures += 1; page_num += 1; continue                      *)
NoContainers ==
    /\ pc = "check"
    /\ product_containers = <<>>
    /\ consecutive_failures' = consecutive_failures + 1
    /\ page_num' = page_num + 1
    /\ outcomes' = Append(outcomes, "failed")
    /\ ClearPage
    /\ pc' = "loop"
    /\ UNCHANGED <<runVars, products_scraped, products_data, reqVars,
                   iterStart, fetches>>
    /\ UNCHANGED otherVars

(* Writing debug_page_N.html raises (OSError): the loop's except runs. *)
DebugWriteRaises ==
    /\ pc = "check"
    /\ product_containers = <<>>
    /\ pc' = "except"
    /\ UNCHANGED <<runVars, loopVars, reqVars, pageVars, histVars>>
    /\ UNCHANGED otherVars

(* BeginProcess without consecutive_failures = 0. *)
BeginProcessNoReset ==
    /\ pc = "check"
    /\ product_containers # <<>>
    /\ idx' = 1
    /\ yields' = <<>>
    /\ tried' = 0
    /\ pc' = "containers"
    /\ UNCHANGED <<runVars, loopVars, reqVars, product_containers, lastFate,
                   histVars>>
    /\ UNCHANGED otherVars

(* Containers were found: consecutive_failures = 0, start the for loop.    *)
(* soup and the selector loop's variable are not read again.               *)
BeginProcess ==
    /\ pc = "check"
    /\ product_containers # <<>>
    /\ consecutive_failures' = 0
    /\ idx' = 1
    /\ yields' = <<>>
    /\ tried' = 0
    /\ pc' = "containers"
    /\ UNCHANGED <<runVars, page_num, products_scraped, products_data, reqVars,
                   product_containers, lastFate, histVars>>
    /\ UNCHANGED otherVars

(* What became of container c, whose extraction gave product_data. *)
Fate(c, product_data) ==
    IF c.raises THEN "raised"
    ELSE IF Truthy(product_data) THEN "appended" ELSE "unnamed"

(* ProcessContainerOf putting the record at the head of the list. *)
ProcessContainerOfPrepends(cs) ==
    /\ pc = "containers"
    /\ idx <= Len(product_containers)
    /\ products_scraped < max_products
    /\ \E c \in cs :
          LET product_data == scrape_product_details(c) IN
             /\ IF Truthy(product_data)
                THEN /\ products_data' = <<product_data>> \o products_data
                     /\ products_scraped' = products_scraped + 1
                ELSE UNCHANGED <<products_data, products_scraped>>
             /\ lastFate' = Fate(c, product_data)
             /\ pc' = IF product_data = Raised THEN "except" ELSE "containers"
    /\ idx' = idx + 1
    /\ UNCHANGED <<runVars, page_num, consecutive_failures, reqVars, yields,
                   tried, product_containers, histVars>>
    /\ UNCHANGED otherVars

(* ProcessContainer without the break at max_products. *)
ProcessContainerNoBreak ==
    /\ pc = "containers"
    /\ idx <= Len(product_containers)
    /\ \E c \in Containers :
          LET product_data == scrape_product_details(c) IN
             /\ IF Truthy(product_data)
                THEN /\ products_data' = Append(products_data, product_data)
                     /\ products_scraped' = products_scraped + 1
                ELSE UNCHANGED <<products_data, products_scraped>>
             /\ lastFate' = Fate(c, product_data)
             /\ pc' = IF product_data = Raised THEN "except" ELSE "containers"
    /\ idx' = idx + 1
    /\ UNCHANGED <<runVars, page_num, consecutive_failures, reqVars, yields,
                   tried, product_containers, histVars>>
    /\ UNCHANGED otherVars

(* One turn of "for i, container in enumerate(product_containers)", for a  *)
(* container whose content is one of cs: the content is read by            *)
(* scrape_product_details; a named record is appended and counted.  An     *)
(* exception leaving the call would reach the loop's except.               *)
ProcessContainerOf(cs) ==
    /\ pc = "containers"
    /\ idx <= Len(product_containers)
    /\ products_scraped < max_products
    /\ \E c \in cs :
          LET product_data == scrape_product_details(c) IN
             /\ IF Truthy(product_data)
                THEN /\ products_data' = Append(products_data, product_data)
                     /\ products_scraped' = products_scraped + 1
                ELSE UNCHANGED <<products_data, products_scraped>>
             /\ lastFate' = Fate(c, product_data)
             /\ pc' = IF product_data = Raised THEN "except" ELSE "containers"
    /\ idx' = idx + 1
    /\ UNCHANGED <<runVars, page_num, consecutive_failures, reqVars, yields,
                   tried, product_containers, histVars>>
    /\ UNCHANGED otherVars

(* The turn of the for loop, for the containers of the run. *)
ProcessContainer == ProcessContainerOf(Containers)

(* The for loop ends (exhausted, or break at max_products): page_num += 1. *)
EndPage ==
    /\ pc = "containers"
    /\ \/ idx > Len(product_containers)
       \/ products_scraped >= max_products
    /\ page_num' = page_num + 1
    /\ outcomes' = Append(outcomes, "ok")
    /\ ClearPage
    /\ pc' = "loop"
    /\ UNCHANGED <<runVars, products_scraped, consecutive_failures,
                   products_data, reqVars, iterStart, fetches>>
    /\ UNCHANGED otherVars

(* HandleUnexpected without page_num += 1. *)
HandleUnexpectedSamePage ==
    /\ pc = "except"
    /\ consecutive_failures' = consecutive_failures + 1
    /\ outcomes' = Append(outcomes, "failed")
    /\ ClearPage
    /\ pc' = "loop"
    /\ UNCHANGED <<runVars, page_num, products_scraped, products_data, reqVars,
                   iterStart, fetches>>
    /\ UNCHANGED otherVars

(* except Exception: consecutive_failures += 1; page_num += 1; continue *)
HandleUnexpected ==
    /\ pc = "except"
    /\ consecutive_failures' = consecutive_failures + 1
    /\ page_num' = page_num + 1
    /\ outcomes' = Append(outcomes, "failed")
    /\ ClearPage
    /\ pc' = "loop"
    /\ UNCHANGED <<runVars, products_scraped, products_data, reqVars,
                   iterStart, fetches>>
    /\ UNCHANGED otherVars

----------------------------------------------------------------------------
RunStep ==
    \/ LoopEnter
    \/ ReturnData
    \/ PolitenessSleep
    \/ GetSend
    \/ GetResponse
    \/ GetRaises
    \/ BackoffSleep
    \/ RequestExceptionHandler
    \/ ReturnNone
    \/ FetchFailed
    \/ Parse
    \/ ParseRaises
    \/ TrySelector
    \/ NoContainers
    \/ DebugWriteRaises
    \/ BeginProcess
    \/ ProcessContainer
    \/ EndPage
    \/ HandleUnexpected

Next == StartRun \/ RunStep

Spec == Init /\ [][Next]_vars

(* The interpreter keeps running the single thread until the call returns. *)
FairSpec == Spec /\ WF_vars(RunStep)

----------------------------------------------------------------------------
(* One run over pages that list two products, on an object that may hold   *)
(* records of earlier calls: the records differ, so their order shows.     *)

(* A container of a second product, whose name reads "c". *)
SecondProductContainers ==
    [has_name : {TRUE}, name_text : {<<"c">>}, raises : {FALSE}]

(* self.products_data as earlier calls can have left it. *)
PriorData ==
    { <<>>,
      <<[Product_Name |-> <<"c">>]>>,
      <<[Product_Name |-> <<"a", " ", "b">>], [Product_Name |-> <<"c">>]>> }

OrderInit ==
    /\ NoRun
    /\ products_data \in PriorData
    /\ details = NoDetails
    /\ powerbi = NoDataset

(* The one call of scrape_toys_category this specification follows. *)
StartOneRun == runs = 0 /\ StartRun

(* The turn of the for loop for a container of the second product. *)
ProcessSecondProduct == ProcessContainerOf(SecondProductContainers)

OrderNext == StartOneRun \/ RunStep \/ ProcessSecondProduct

OrderSpec == OrderInit /\ [][OrderNext]_vars

----------------------------------------------------------------------------
(* scrape_product_details on one container, taken by itself: the review    *)
(* selector loop turn by turn, the record it returns, and the append the   *)
(* caller makes of it.                                                     *)

ExtractInit ==
    /\ NoRun
    /\ products_data = <<>>
    /\ powerbi = NoDataset
    /\ \E c \in DetailContainers :
          details = [stage |-> "reviews", c |-> c, sel |-> 0,
                     review_element |-> NoElement, product_data |-> None]

(* The selector loop that goes on after a validated candidate. *)
ReviewSelectorTurnNoBreak ==
    /\ details.stage = "reviews"
    /\ LET k == details.sel + 1
           review_element == details.c.reviews[k]
       IN  details' = [details EXCEPT
                         !.sel = k,
                         !.review_element = review_element,
                         !.stage = IF k = NumReviewSelectors
                                   THEN "selected" ELSE "reviews"]
    /\ UNCHANGED <<runLocalVars, products_data, powerbi>>

(* One turn of the loop over review_selectors: the selector's match        *)
(* becomes review_element, and a validated text ends the loop.             *)
ReviewSelectorTurn ==
    /\ details.stage = "reviews"
    /\ LET k == details.sel + 1
           review_element == details.c.reviews[k]
           break == /\ review_element.matched
                    /\ ReviewTextValid(review_element.text)
       IN  details' = [details EXCEPT
                         !.sel = k,
                         !.review_element = review_element,
                         !.stage = IF break \/ k = NumReviewSelectors
                                   THEN "selected" ELSE "reviews"]
    /\ UNCHANGED <<runLocalVars, products_data, powerbi>>

(* The record scrape_product_details returns. *)
ReturnDetails ==
    /\ details.stage = "selected"
    /\ LET c == details.c
           review_element == details.review_element
       IN  details' = [details EXCEPT
              !.stage = "returned",
              !.product_data =
                 [Product_Name |-> scrape_product_details(c).Product_Name,
                  Rating |-> IF c.rating.matched
                             THEN extract_rating(RatingText(c.rating))
                             ELSE None,
                  Number_of_Reviews |->
                             IF review_element.matched
                             THEN extract_review_count(review_element.text)
                             ELSE None]]
    /\ UNCHANGED <<runLocalVars, products_data, powerbi>>

(* The caller appends a record that has a name, and drops any other. *)
AppendDetails ==
    /\ details.stage = "returned"
    /\ details' = [details EXCEPT !.stage = "done"]
    /\ products_data' = IF Truthy(details.product_data)
                        THEN Append(products_data, details.product_data)
                        ELSE products_data
    /\ UNCHANGED <<runLocalVars, powerbi>>

ExtractNext == ReviewSelectorTurn \/ ReturnDetails \/ AppendDetails

ExtractSpec == ExtractInit /\ [][ExtractNext]_vars

----------------------------------------------------------------------------
(* create_powerbi_dataset.  A price is held in hundredths of a rupee and a *)
(* rating in hundredths, as above; NaN is None.  The labels are the        *)
(* source's without the rupee sign.                                        *)

(* How many collected records the dataset is built from, at most. *)
MaxRecords == 2

(* How many times create_powerbi_dataset is called, at most. *)
MaxCalls == 2

(* Prices extract_price can return, around every threshold. *)
PriceSamples ==
    {None} \cup {Some(v) : v \in {0, 49999, 50000, 99999, 100000, 199999,
                                   200000, 499999, 500000, 12345000}}

(* Ratings extract_rating can return, around every threshold. *)
RatingSamples ==
    {None} \cup {Some(v) : v \in {0, 299, 300, 349, 350, 399, 400, 449,
                                   450, 500, 1200}}

(* Counts extract_review_count can return, around every threshold. *)
ReviewSamples ==
    {None} \cup {Some(v) : v \in {0, 1, 9, 10, 49, 50, 99, 100, 499, 500,
                                   1234}}

(* Records a run can have collected: the name is cleaned and not empty;    *)
(* one of the three extracted numbers varies.                              *)
RawRecords ==
    [Product_Name : {<<"a", " ", "b">>}, Price : PriceSamples,
     Rating : {Some(430)}, Number_of_Reviews : {Some(12)}]
    \cup [Product_Name : {<<"a", " ", "b">>}, Price : {Some(49900)},
          Rating : RatingSamples, Number_of_Reviews : {Some(12)}]
    \cup [Product_Name : {<<"a", " ", "b">>}, Price : {Some(49900)},
          Rating : {Some(430)}, Number_of_Reviews : ReviewSamples]

RawSequences ==
    UNION {[1..n -> RawRecords] : n \in 0..MaxRecords}

(* categorize_price with each upper bound inclusive. *)
categorize_price_inclusive(price) ==
    IF price = None THEN "No Price Listed"
    ELSE IF price.value <= 50000 THEN "Under 500"
    ELSE IF price.value <= 100000 THEN "500 - 1,000"
    ELSE IF price.value <= 200000 THEN "1,000 - 2,000"
    ELSE IF price.value <= 500000 THEN "2,000 - 5,000"
    ELSE "Above 5,000"

categorize_price(price) ==
    IF price = None THEN "No Price Listed"
    ELSE IF price.value < 50000 THEN "Under 500"
    ELSE IF price.value < 100000 THEN "500 - 1,000"
    ELSE IF price.value < 200000 THEN "1,000 - 2,000"
    ELSE IF price.value < 500000 THEN "2,000 - 5,000"
    ELSE "Above 5,000"

(* categorize_rating with each lower bound exclusive. *)
categorize_rating_exclusive(rating) ==
    IF rating = None THEN "No Rating"
    ELSE IF rating.value > 450 THEN "Excellent (4.5+)"
    ELSE IF rating.value > 400 THEN "Very Good (4.0-4.4)"
    ELSE IF rating.value > 350 THEN "Good (3.5-3.9)"
    ELSE IF rating.value > 300 THEN "Average (3.0-3.4)"
    ELSE "Below Average (<3.0)"

categorize_rating(rating) ==
    IF rating = None THEN "No Rating"
    ELSE IF rating.value >= 450 THEN "Excellent (4.5+)"
    ELSE IF rating.value >= 400 THEN "Very Good (4.0-4.4)"
    ELSE IF rating.value >= 350 THEN "Good (3.5-3.9)"
    ELSE IF rating.value >= 300 THEN "Average (3.0-3.4)"
    ELSE "Below Average (<3.0)"

(* categorize_reviews with each upper bound inclusive. *)
categorize_reviews_inclusive(review_count) ==
    IF review_count = 0 THEN "No Reviews"
    ELSE IF review_count <= 10 THEN "Few Reviews (1-9)"
    ELSE IF review_count <= 50 THEN "Some Reviews (10-49)"
    ELSE IF review_count <= 100 THEN "Many Reviews (50-99)"
    ELSE IF review_count <= 500 THEN "Lots of Reviews (100-499)"
    ELSE "Very Popular (500+)"

categorize_reviews(review_count) ==
    IF review_count = 0 THEN "No Reviews"
    ELSE IF review_count < 10 THEN "Few Reviews (1-9)"
    ELSE IF review_count < 50 THEN "Some Reviews (10-49)"
    ELSE IF review_count < 100 THEN "Many Reviews (50-99)"
    ELSE IF review_count < 500 THEN "Lots of Reviews (100-499)"
    ELSE "Very Popular (500+)"

(* pd.to_numeric(...).fillna(0).astype(int) of one count. *)
FillZero(n) == IF n = None THEN 0 ELSE n.value

(* The row create_powerbi_dataset makes of one collected record. *)
PowerbiRow(r) ==
    [Product_Name |-> r.Product_Name,
     Price_INR |-> r.Price,
     Rating |-> r.Rating,
     Number_of_Reviews |-> FillZero(r.Number_of_Reviews),
     Price_Range |-> categorize_price(r.Price),
     Rating_Category |-> categorize_rating(r.Rating),
     Review_Category |-> categorize_reviews(FillZero(r.Number_of_Reviews)),
     Has_Price |-> r.Price # None,
     Has_Rating |-> r.Rating # None,
     Has_Reviews |-> FillZero(r.Number_of_Reviews) > 0]

HasPrice(r) == r.Price # None

(* A dataset of the priced records only. *)
create_powerbi_dataset_priced_only(data) ==
    LET priced == SelectSeq(data, HasPrice)
    IN  [i \in 1..Len(priced) |-> PowerbiRow(priced[i])]

(* The data frame: one row per record of the list, in the list's order;    *)
(* no row for an empty list.                                               *)
create_powerbi_dataset(data) ==
    [i \in 1..Len(data) |-> PowerbiRow(data[i])]

(* Some run has collected records; create_powerbi_dataset is yet to be     *)
(* called.  The method reads self.products_data and nothing else.          *)
DatasetInit ==
    /\ NoRun
    /\ products_data \in RawSequences
    /\ details = NoDetails
    /\ powerbi = NoDataset

(* One call of create_powerbi_dataset; the first call's result is kept     *)
(* beside the latest one.                                                  *)
CreateDataset ==
    /\ powerbi.calls < MaxCalls
    /\ LET powerbi_df == create_powerbi_dataset(products_data)
       IN  powerbi' = [calls |-> powerbi.calls + 1,
                       df |-> powerbi_df,
                       first |-> IF powerbi.calls = 0 THEN powerbi_df
                                 ELSE powerbi.first]
    /\ UNCHANGED <<runLocalVars, products_data, details>>

DatasetNext == CreateDataset

DatasetSpec == DatasetInit /\ [][DatasetNext]_vars

----------------------------------------------------------------------------
(* Properties. *)

(* The number of failed pages at the end of history h. *)
RECURSIVE TrailingFails(_)
TrailingFails(h) ==
    IF h = <<>> \/ h[Len(h)] # "failed" THEN 0
    ELSE 1 + TrailingFails(SubSeq(h, 1, Len(h) - 1))

InIteration == pc \notin {"idle", "loop", "done"}

BudgetLeft == page_num <= max_pages /\ products_scraped < max_products

(* C1: a page is fetched or processed only while fewer than 3 pages in a   *)
(* row have failed, every page fetched is accounted for in the history,    *)
(* and a run that returns with page and product budget left returns after  *)
(* exactly 3 consecutive failed pages, not after 1 or 2.                   *)
C1_BreakerAtThree ==
    /\ InIteration => TrailingFails(outcomes) < FailureLimit
    /\ InIteration => fetches = Len(outcomes) + 1
    /\ pc \in {"loop", "done"} => fetches = Len(outcomes)
    /\ pc = "done" /\ BudgetLeft => TrailingFails(outcomes) = FailureLimit

C1_Witness ==
    /\ pc = "done"
    /\ BudgetLeft
    /\ TrailingFails(outcomes) = FailureLimit
    /\ fetches = FailureLimit
    /\ max_pages > FailureLimit

(* C2: every completed call returns at most max_products records. *)
C2_AtMostMaxProducts == pc = "done" => Len(returned) <= max_products

(* C3: a make_request_with_retry call never issues more than 3 GETs, and   *)
(* when it returns None (every attempt failed) it has issued exactly 3.    *)
C3_ThreeAttemptsThenNone ==
    /\ gets <= MaxRetries
    /\ pc = "fetched" /\ response = None => gets = MaxRetries /\ inFlight = 0
    /\ pc = "fetched" => response \in {None, Response200}

C3_Witness ==
    /\ pc = "fetched"
    /\ response = None
    /\ gets = MaxRetries
    /\ status = 503

(* C4: every record of the output has a non-empty name, and the records    *)
(* appended during an iteration are as many as products_scraped grew.      *)
C4_NamesNonEmpty ==
    /\ \A i \in 1..Len(products_data) :
          /\ products_data[i] # None
          /\ products_data[i].Product_Name # <<>>
    /\ Len(products_data) - Len(iterStart.products_data)
          = products_scraped - iterStart.products_scraped

C4_Witness ==
    /\ pc = "containers"
    /\ lastFate = "unnamed"
    /\ idx = 3
    /\ Len(products_data) = Len(iterStart.products_data) + 1

(* C5: a run fetches at most max_pages pages, a run that has reached its   *)
(* loop head eventually returns, and what it returns is everything in      *)
(* products_data, whichever threshold ended it.                            *)
C5_TerminatesGracefully ==
    /\ [](fetches <= max_pages)
    /\ [](pc = "done" => returned = products_data)
    /\ [](pc = "loop" => <>(pc = "done"))

C5_Witness ==
    /\ pc = "done"
    /\ BudgetLeft
    /\ TrailingFails(outcomes) = FailureLimit
    /\ products_scraped > 0
    /\ returned = products_data
    /\ runs = 1

(* C6: once a GET is answered 200 the call has returned: the response is   *)
(* handed back with no sleep and no GET after it, and the GETs issued are  *)
(* the index of the attempt that got 200.                                  *)
C6_ReturnsOn200 ==
    /\ status = 200 => pc = "fetched" /\ response = Response200
    /\ pc = "fetched" /\ response = Response200 =>
          /\ status = 200
          /\ lastOp.op = "get"
          /\ inFlight = 0
          /\ gets = attempt + 1
          /\ backoffs = attempt

C6_Witness ==
    /\ pc = "fetched"
    /\ response = Response200
    /\ gets = 2

(* A state in which the current iteration has failed: the fetch returned   *)
(* None, or no container selector yielded a container.                     *)
FailedIteration ==
    \/ pc = "fetched" /\ response = None
    \/ pc = "check" /\ product_containers = <<>>
    \/ pc = "except" /\ tried = NumSelectors /\ product_containers = <<>>

(* C7: when a failed iteration ends, consecutive_failures and page_num are *)
(* each one more than when it began, and products_data and                 *)
(* products_scraped are as when it began.                                  *)
C7_FailedPageFrame ==
    [][FailedIteration /\ pc' = "loop" =>
          /\ consecutive_failures' = iterStart.consecutive_failures + 1
          /\ consecutive_failures' = consecutive_failures + 1
          /\ page_num' = iterStart.page_num + 1
          /\ page_num' = page_num + 1
          /\ products_data' = iterStart.products_data
          /\ products_scraped' = iterStart.products_scraped]_vars

C7_Witness ==
    /\ pc = "loop"
    /\ outcomes # <<>>
    /\ outcomes[Len(outcomes)] = "failed"
    /\ consecutive_failures = 2
    /\ products_scraped = 1
    /\ page_num = 4

(* The selectors evaluated so far that yielded a container. *)
Yielding == {s \in 1..Len(yields) : yields[s] > 0}

(* C8: the selectors are evaluated in order and none is evaluated after    *)
(* one that yielded; when the selector loop is over, product_containers    *)
(* is the whole result of the one selector that yielded (empty if all      *)
(* four yielded nothing); the containers processed are one selector's, in  *)
(* document order.                                                         *)
C8_FirstYieldingStrategy ==
    /\ Len(yields) = tried
    /\ \A s \in Yielding : s = tried
    /\ pc = "select" => Yielding = {} /\ tried < NumSelectors
    /\ pc = "check" =>
          /\ Yielding = {} => tried = NumSelectors
          /\ product_containers =
                [k \in 1..yields[tried] |-> <<tried, k>>]
    /\ pc = "containers" =>
          /\ product_containers # <<>>
          /\ \A k \in 1..Len(product_containers) :
                product_containers[k] = <<product_containers[1][1], k>>

C8_Witness ==
    /\ pc = "check"
    /\ tried = 2
    /\ yields = <<0, 2>>
    /\ Len(product_containers) = 2

(* C9: a container whose extraction raises changes nothing but the loop    *)
(* position: nothing is appended or counted, consecutive_failures stays,   *)
(* and the for loop goes on; the for loop ends only when every container   *)
(* was handed to the extractor or max_products is reached.                 *)
C9_RaisingContainerSkipped ==
    [][/\ (idx' = idx + 1 /\ lastFate' = "raised") =>
             /\ pc' = "containers"
             /\ UNCHANGED <<products_data, products_scraped,
                            consecutive_failures, page_num,
                            product_containers>>
       /\ (pc = "containers" /\ pc' # "containers") =>
             /\ pc' = "loop"
             /\ \/ idx > Len(product_containers)
                \/ products_scraped >= max_products]_vars

C9_Witness ==
    /\ pc = "containers"
    /\ lastFate = "raised"
    /\ idx = 2
    /\ Len(product_containers) = 2
    /\ products_scraped < max_products
    /\ consecutive_failures = 0

(* C10: a GET is sent only right after a politeness sleep of at least      *)
(* MinDelay seconds, with no request in flight; never more than one        *)
(* request is in flight.                                                   *)
C10_PolitenessBeforeEveryGet ==
    /\ [](inFlight \in {0, 1})
    /\ [][inFlight' > inFlight =>
             /\ inFlight = 0
             /\ lastOp.op = "politeness"
             /\ lastOp.dur >= MinDelay
             /\ lastOp'.op = "get"]_vars

C10_Witness ==
    /\ pc = "req_wait"
    /\ inFlight = 1
    /\ gets = 3
    /\ page_num = 2

(* C11: handling a network-level failure of attempt 0 or 1 performs one    *)
(* backoff sleep of 2^attempt seconds and goes on to the next attempt;     *)
(* handling one of attempt 2, the last, performs no sleep, and the call    *)
(* then returns None with 3 GETs issued.                                   *)
C11_BackoffAfterNetworkFailure ==
    [][pc = "req_except" =>
          /\ pc' = "req_for"
          /\ attempt' = attempt + 1
          /\ gets' = gets
          /\ IF attempt < 2
             THEN /\ lastOp' = [op |-> "backoff", dur |-> 2 ^ attempt]
                  /\ backoffs' = backoffs + 1
                  /\ attempt' < MaxRetries
             ELSE /\ lastOp' = lastOp
                  /\ lastOp.op = "get"
                  /\ backoffs' = backoffs
                  /\ attempt' = MaxRetries
                  /\ gets = MaxRetries]_vars

C11_Witness ==
    /\ pc = "fetched"
    /\ response = None
    /\ lastOp.op = "get"
    /\ backoffs = 2
    /\ attempt = MaxRetries

(* A call of scrape_toys_category is in progress. *)
InRun == pc \notin {"idle", "done"}

(* C18: during a run products_scraped is at most max_products and is the   *)
(* number of records the run has appended to the records the object held   *)
(* when the run began; once it has reached max_products the run hands no   *)
(* container to the extractor and fetches no page.                         *)
C18_CountWithinCap ==
    /\ [](InRun =>
            /\ products_scraped <= max_products
            /\ products_scraped <= Len(products_data)
            /\ returned = SubSeq(products_data, 1,
                                 Len(products_data) - products_scraped))
    /\ [][InRun /\ products_scraped >= max_products =>
             /\ idx' # idx + 1
             /\ products_data' = products_data
             /\ fetches' = fetches
             /\ gets' = gets
             /\ pc' \in {"loop", "done"}]_vars

C18_Witness ==
    /\ pc = "containers"
    /\ products_scraped = max_products
    /\ max_products = 1
    /\ idx = 2
    /\ Len(product_containers) = 2
    /\ page_num < max_pages
    /\ runs = 2
    /\ Len(returned) = 1

(* C19: consecutive_failures is in 0..3; at the loop head it is the number *)
(* of failed pages at the end of the run's history, that is, since the     *)
(* last page on which a selector yielded containers; while the containers  *)
(* of a page are processed it is 0, whatever becomes of them.              *)
C19_FailuresSinceLastYield ==
    /\ consecutive_failures \in 0..FailureLimit
    /\ pc \in {"loop", "done"} =>
          consecutive_failures = TrailingFails(outcomes)
    /\ pc \in {"req_for", "req_get", "req_wait", "req_backoff", "req_except",
               "fetched", "select", "check", "except"} =>
          consecutive_failures = TrailingFails(outcomes)
    /\ pc = "containers" => consecutive_failures = 0

C19_Witness ==
    /\ pc = "loop"
    /\ Len(outcomes) = 3
    /\ outcomes[3] = "ok"
    /\ TrailingFails(SubSeq(outcomes, 1, 2)) = 2
    /\ consecutive_failures = 0
    /\ iterStart.consecutive_failures = 2
    /\ products_scraped = 0
    /\ products_data = iterStart.products_data

(* C20: the page being fetched or processed is page number fetches, the    *)
(* count of pages fetched so far in the run, so pages are fetched as 1, 2, *)
(* 3, ... with none skipped or repeated; every step that ends an iteration *)
(* adds exactly 1 to page_num.                                             *)
C20_PagesInOrder ==
    /\ [](InIteration => page_num = fetches /\ page_num = Len(outcomes) + 1)
    /\ [](pc \in {"loop", "done"} =>
            page_num = fetches + 1 /\ page_num = Len(outcomes) + 1)
    /\ [][InIteration /\ pc' = "loop" => page_num' = page_num + 1]_vars
    /\ [][fetches' = fetches + 1 => page_num' = page_num /\ pc = "loop"]_vars

C20_Witness ==
    /\ pc = "loop"
    /\ page_num = 4
    /\ fetches = 3
    /\ outcomes = <<"ok", "failed", "failed">>
    /\ products_scraped = 1

----------------------------------------------------------------------------
(* C12: the review count of a record comes from the first candidate, in    *)
(* review selector order, whose text contains "review" in any case or a    *)
(* digit; the loop consults no selector after that one; and when no        *)
(* candidate validates, the last selector matching an element that fails   *)
(* validation included, the review count is None.                          *)
C12_FirstValidatedCandidate ==
    details.stage \in {"returned", "done"} =>
        LET c == details.c
            valid == {k \in 1..NumReviewSelectors :
                         /\ c.reviews[k].matched
                         /\ ReviewTextValid(c.reviews[k].text)}
        IN  IF valid = {}
            THEN /\ details.product_data.Number_of_Reviews = None
                 /\ details.sel = NumReviewSelectors
            ELSE LET k == CHOOSE k \in valid : \A j \in valid : k <= j
                 IN  /\ details.product_data.Number_of_Reviews
                           = extract_review_count(c.reviews[k].text)
                     /\ details.sel = k

C12_Witness ==
    /\ details.stage = "done"
    /\ details.c.reviews[1] = [matched |-> TRUE, text |-> <<"S", "e", "e", " ", "o", "p", "t", "i", "o", "n", "s">>]
    /\ details.c.reviews[2] = [matched |-> TRUE, text |-> <<"1", ",", "2", "3", "4", " ", "r", "a", "t", "i", "n", "g", "s">>]
    /\ details.c.reviews[3] = [matched |-> TRUE, text |-> <<"(", "5", "6", ")">>]
    /\ details.sel = 2
    /\ Len(products_data) = 1
    /\ products_data[1].Number_of_Reviews = Some(1234)

(* C13: categorize_price gives a missing price "No Price Listed" and a     *)
(* price p >= 0 exactly one range, lower bound inclusive and upper bound   *)
(* exclusive: [0,500), [500,1000), [1000,2000), [2000,5000), [5000,inf).   *)
C13_PriceRanges ==
    \A i \in 1..Len(powerbi.df) :
        LET row == powerbi.df[i]
            p == row.Price_INR
            b == row.Price_Range
        IN  /\ p = products_data[i].Price
            /\ (p = None) <=> (b = "No Price Listed")
            /\ p # None =>
                 /\ p.value >= 0
                 /\ (p.value < 50000) <=> (b = "Under 500")
                 /\ (50000 <= p.value /\ p.value < 100000)
                        <=> (b = "500 - 1,000")
                 /\ (100000 <= p.value /\ p.value < 200000)
                        <=> (b = "1,000 - 2,000")
                 /\ (200000 <= p.value /\ p.value < 500000)
                        <=> (b = "2,000 - 5,000")
                 /\ (500000 <= p.value) <=> (b = "Above 5,000")

C13_Witness ==
    /\ powerbi.calls = 1
    /\ Len(powerbi.df) = 2
    /\ powerbi.df[1].Price_INR = Some(49900)
    /\ powerbi.df[1].Price_Range = "Under 500"
    /\ powerbi.df[2].Price_INR = Some(50000)
    /\ powerbi.df[2].Price_Range = "500 - 1,000"

(* C14: categorize_rating gives a missing rating "No Rating" and a rating  *)
(* r Excellent when r >= 4.5, Very Good when 4.0 <= r < 4.5, Good when     *)
(* 3.5 <= r < 4.0, Average when 3.0 <= r < 3.5, Below Average otherwise.   *)
C14_RatingCategories ==
    \A i \in 1..Len(powerbi.df) :
        LET row == powerbi.df[i]
            r == row.Rating
            b == row.Rating_Category
        IN  /\ r = products_data[i].Rating
            /\ (r = None) <=> (b = "No Rating")
            /\ r # None =>
                 /\ (r.value >= 450) <=> (b = "Excellent (4.5+)")
                 /\ (400 <= r.value /\ r.value < 450)
                        <=> (b = "Very Good (4.0-4.4)")
                 /\ (350 <= r.value /\ r.value < 400)
                        <=> (b = "Good (3.5-3.9)")
                 /\ (300 <= r.value /\ r.value < 350)
                        <=> (b = "Average (3.0-3.4)")
                 /\ (r.value < 300) <=> (b = "Below Average (<3.0)")

C14_Witness ==
    /\ powerbi.calls = 1
    /\ Len(powerbi.df) = 2
    /\ powerbi.df[1].Rating = Some(450)
    /\ powerbi.df[1].Rating_Category = "Excellent (4.5+)"
    /\ powerbi.df[2].Rating = Some(399)
    /\ powerbi.df[2].Rating_Category = "Good (3.5-3.9)"

(* C15: create_powerbi_dataset treats a missing review count as 0: the     *)
(* row has "No Reviews" and Has_Reviews false; for a count n, Has_Reviews  *)
(* is true exactly when n > 0, and the category is the one of 0, 1-9,      *)
(* 10-49, 50-99, 100-499, 500 and more that holds n.                       *)
C15_ReviewsNullAsZero ==
    \A i \in 1..Len(powerbi.df) :
        LET row == powerbi.df[i]
            n == products_data[i].Number_of_Reviews
            b == row.Review_Category
        IN  /\ n = None =>
                 /\ row.Number_of_Reviews = 0
                 /\ b = "No Reviews"
                 /\ ~row.Has_Reviews
            /\ n # None =>
                 /\ row.Number_of_Reviews = n.value
                 /\ row.Has_Reviews <=> (n.value > 0)
                 /\ (n.value = 0) <=> (b = "No Reviews")
                 /\ (n.value \in 1..9) <=> (b = "Few Reviews (1-9)")
                 /\ (n.value \in 10..49) <=> (b = "Some Reviews (10-49)")
                 /\ (n.value \in 50..99) <=> (b = "Many Reviews (50-99)")
                 /\ (n.value \in 100..499)
                        <=> (b = "Lots of Reviews (100-499)")
                 /\ (n.value >= 500) <=> (b = "Very Popular (500+)")

C15_Witness ==
    /\ powerbi.calls = 1
    /\ Len(products_data) = 2
    /\ products_data[1].Number_of_Reviews = None
    /\ powerbi.df[1].Review_Category = "No Reviews"
    /\ ~powerbi.df[1].Has_Reviews
    /\ products_data[2].Number_of_Reviews = Some(10)
    /\ powerbi.df[2].Review_Category = "Some Reviews (10-49)"
    /\ powerbi.df[2].Has_Reviews

(* C16: create_powerbi_dataset called again on the same collected records  *)
(* gives the rows the first call gave; a call leaves the collected records *)
(* as they were; and the result has one row per collected record, in the   *)
(* records' order.                                                         *)
C16_PureOneToOne ==
    /\ [](powerbi.calls > 0 =>
            /\ powerbi.df = powerbi.first
            /\ Len(powerbi.df) = Len(products_data)
            /\ \A i \in 1..Len(products_data) :
                  /\ powerbi.df[i].Product_Name = products_data[i].Product_Name
                  /\ powerbi.df[i].Price_INR = products_data[i].Price
                  /\ powerbi.df[i].Rating = products_data[i].Rating
                  /\ powerbi.df[i].Has_Price = (products_data[i].Price # None)
                  /\ powerbi.df[i].Has_Rating
                        = (products_data[i].Rating # None))
    /\ [][powerbi'.calls = powerbi.calls + 1 =>
             products_data' = products_data]_vars

C16_Witness ==
    /\ powerbi.calls = 2
    /\ Len(products_data) = 2
    /\ products_data[1].Price = None
    /\ products_data[2].Rating = None
    /\ Len(powerbi.df) = 2
    /\ ~powerbi.df[1].Has_Price /\ powerbi.df[1].Has_Rating
    /\ powerbi.df[2].Has_Price /\ ~powerbi.df[2].Has_Rating
    /\ powerbi.first = powerbi.df

(* C17: every record of the output has a rating that is None or lies in    *)
(* 0..5 (0..500 in hundredths), whatever aria-label or text the first      *)
(* matching rating selector finds.                                         *)
C17_RatingInRange ==
    \A i \in 1..Len(products_data) :
        \/ products_data[i].Rating = None
        \/ products_data[i].Rating.value \in 0..500

(* s is a prefix of t. *)
IsPrefix(s, t) == Len(s) <= Len(t) /\ SubSeq(t, 1, Len(s)) = s

(* C21: the output only grows at its end, and in order.  Every step leaves *)
(* the previous products_data a prefix of the new one.  A step that adds a *)
(* record adds one, taken from the container at position idx in document   *)
(* order of page page_num, and moves on to the next container of that      *)
(* page.  Within a run the place <<page_num, idx>> never moves back, so a   *)
(* later record comes from a later page, or from a later container of the  *)
(* same page.  The records of the page in hand lie after everything        *)
(* collected before its iteration began, and number at most the containers *)
(* already passed.                                                         *)
C21_AppendOnlyInOrder ==
    /\ [][IsPrefix(products_data, products_data')]_vars
    /\ [][products_data' # products_data =>
             /\ pc = "containers"
             /\ idx \in 1..Len(product_containers)
             /\ product_containers[idx][2] = idx
             /\ Len(products_data') = Len(products_data) + 1
             /\ page_num' = page_num
             /\ idx' = idx + 1]_vars
    /\ [][runs' = runs =>
             \/ page_num' > page_num
             \/ page_num' = page_num /\ idx' >= idx]_vars
    /\ [](InIteration =>
             /\ iterStart.page_num = page_num
             /\ IsPrefix(iterStart.products_data, products_data)
             /\ Len(products_data) - Len(iterStart.products_data)
                   <= (IF pc = "containers" THEN idx - 1 ELSE 0))

C21_Witness ==
    /\ pc = "containers"
    /\ page_num = 3
    /\ outcomes = <<"ok", "failed">>
    /\ iterStart.products_data
          = <<[Product_Name |-> <<"c">>], [Product_Name |-> <<"a", " ", "b">>]>>
    /\ products_data
          = Append(iterStart.products_data, [Product_Name |-> <<"c">>])
    /\ products_scraped = 2
    /\ Len(product_containers) = 2
    /\ idx = 3

====
